---- MODULE Spec2Model ----
(***************************************************************************)
(* The token refresh-and-retry protocol of the two OAuth2 clients          *)
(* (fitbit.py, oura.py) and the API-key guard of the Digitransit fetchers  *)
(* (transport.py, digitransit.py, app.py).                                 *)
(*                                                                         *)
(* A make_request call is a small sequential program; every outbound HTTP  *)
(* call and every write to os.environ / .env is one step, so that the      *)
(* states between two writes of save_token are states of the model.        *)
(***************************************************************************)
EXTENDS Integers, Sequences, FiniteSets, TLC

\* ------------------------------------------------------------------ bounds
\* make_request / fetcher calls started in one run of the process
MaxCalls == 2

\* ------------------------------------------------------------------ values
\* A Python value as os.getenv / tokens.get hands it out: None, a str (a
\* sequence of characters) or a JSON value that is no str (a number).
None == [t |-> "none", s |-> <<>>]
Str(x) == [t |-> "str", s |-> x]
Num == [t |-> "num", s |-> <<>>]

\* Characters: a blank, or a symbol c of the n-th issued credential.
SP == <<" ", 0>>
Ch(c, n) == <<c, n>>

\* bool(v) as `if new_access and new_refresh`, `all([...])`, `if not token`
\* take it: None and "" are falsy, any other str is truthy (a blank one too),
\* and so is the non-zero number.
Truthy(v) == v.t = "num" \/ (v.t = "str" /\ v.s # <<>>)

RECURSIVE LStrip(_)
LStrip(x) == IF x # <<>> /\ Head(x) = SP THEN LStrip(Tail(x)) ELSE x

RECURSIVE RStrip(_)
RStrip(x) == IF x # <<>> /\ x[Len(x)] = SP THEN RStrip(SubSeq(x, 1, Len(x) - 1)) ELSE x

\* str.strip()
Strip(x) == RStrip(LStrip(x))

\* os.getenv(key, "") : the default stands in for an absent variable.
GetenvOr(v, default) == IF v.t = "none" THEN default ELSE v

\* ------------------------------------------------------------------ names
Services == {"fitbit", "oura"}
Threads == {1, 2}
AuthKeys == {"ACCESS_TOKEN", "REFRESH_TOKEN", "CLIENT_ID", "CLIENT_SECRET"}
TokenKeys == {"ACCESS_TOKEN", "REFRESH_TOKEN"}

\* HTTP: a transport error / timeout is status 0; raise_for_status raises
\* for the 4xx and 5xx statuses only.
TransportError == 0
Statuses == {200, 300, 401, 500}
RaiseForStatus(st) == st >= 400 /\ st < 600

VARIABLES
    environ,    \* os.environ: environ[service][key]
    dotenv,     \* the .env file: dotenv[service][token key]
    DIGITRANSIT_KEY, \* the environment variable of that name
    API_KEY,    \* transport.API_KEY / digitransit.API_KEY, set at import
    call,       \* call[thread]: the locals of the thread's make_request, and
                \* environ0 / dotenv0, the token store as the call found it
    fetch,      \* the locals of the running Digitransit fetcher call
    issued,     \* credential pairs the token endpoints have handed out
    nCalls      \* calls started so far

vars == <<environ, dotenv, DIGITRANSIT_KEY, API_KEY, call, fetch, issued, nCalls>>

\* ------------------------------------------------------------- credentials
OldAccess == Str(<<Ch("a", 0)>>)
OldRefresh == Str(<<Ch("r", 0)>>)
DefaultConfig ==
    [ACCESS_TOKEN |-> OldAccess, REFRESH_TOKEN |-> OldRefresh,
     CLIENT_ID |-> Str(<<Ch("i", 0)>>), CLIENT_SECRET |-> Str(<<Ch("s", 0)>>)]

\* What a .env file / process environment may hold for one service: any
\* access token, and at most one of the three refresh credentials missing.
Configs ==
  {cfg \in
    [ACCESS_TOKEN : {None, Str(<<>>), Str(<<SP>>), OldAccess, Str(<<SP, Ch("a", 0), SP>>)},
     REFRESH_TOKEN : {None, Str(<<>>), OldRefresh},
     CLIENT_ID : {None, Str(<<Ch("i", 0)>>)},
     CLIENT_SECRET : {Str(<<>>), Str(<<Ch("s", 0)>>)}] :
    Cardinality({k \in {"REFRESH_TOKEN", "CLIENT_ID", "CLIENT_SECRET"} : ~Truthy(cfg[k])}) <= 1}

\* DIGITRANSIT_KEY in the environment: absent, blank, or a key with padding
DefaultKey == Str(<<SP, Ch("k", 0)>>)
DigitransitKeys == {None, Str(<<SP>>), DefaultKey}

\* ------------------------------------------------------------------ locals
IdleCall ==
    [pc |-> "idle", svc |-> "fitbit", headers |-> {}, sent |-> <<>>, posted |-> <<>>,
     refreshCalls |-> 0, refresh_token |-> None, new_access |-> None, new_refresh |-> None,
     refreshed |-> "none", first |-> -1, tokenStatus |-> -1, tokenBody |-> "none",
     retry |-> -1, got |-> <<>>, writes |-> {}, out |-> <<>>, result |-> "none",
     environ0 |-> <<>>, dotenv0 |-> <<>>]

IdleFetch == [pc |-> "idle", op |-> "none", requests |-> 0,
              answer |-> <<-1, "none">>,
              result |-> [t |-> "none", i |-> 0, s |-> <<>>]]

\* Mutant: the header is built from the raw variable, with no strip and no
\* `if not token` guard.
get_headers_unguarded(e, s) ==
    {<<"Authorization", <<"Bearer", GetenvOr(e[s]["ACCESS_TOKEN"], Str(<<>>)).s>>>>}

\* get_fitbit_headers / get_oura_headers
get_headers(e, s) ==
    LET token == Strip(GetenvOr(e[s]["ACCESS_TOKEN"], Str(<<>>)).s)
    IN  IF token = <<>> THEN {} ELSE {<<"Authorization", <<"Bearer", token>>>>}

\* load_dotenv() at import: the token variables come from .env. A deployment
\* is the complete one (DefaultConfig for both services, DefaultKey) with the
\* configuration of one service, or the Digitransit key, replaced.
Init ==
    /\ \E s \in Services, cfg \in Configs, key \in DigitransitKeys :
          /\ cfg = DefaultConfig \/ key = DefaultKey
          /\ environ = [t \in Services |-> IF t = s THEN cfg ELSE DefaultConfig]
          /\ DIGITRANSIT_KEY = key
    /\ dotenv = [t \in Services |-> [k \in TokenKeys |-> environ[t][k]]]
    /\ API_KEY = Strip(GetenvOr(DIGITRANSIT_KEY, Str(<<>>)).s)
    /\ call = [c \in Threads |-> IdleCall]
    /\ fetch = IdleFetch
    /\ issued = 0
    /\ nCalls = 0

\* ------------------------------------------------------------ make_request
\* The code is single-threaded: a call starts when nothing else is running.
Quiet == fetch.pc = "idle" /\ \A d \in Threads : call[d].pc = "idle"

\* make_request returns None from its `except Exception` handler.
RequestError(r) ==
    [r EXCEPT !.out = @ \o <<"Error making request">>, !.result = "None", !.pc = "done"]

\* raise_for_status(); return r.json()  -- the tail of make_request
Finish(r, st, body) ==
    IF st = TransportError \/ RaiseForStatus(st) \/ body = "bad"
    THEN RequestError([r EXCEPT !.got = Append(@, body)])
    ELSE [r EXCEPT !.got = Append(@, body), !.result = "body", !.pc = "done"]

\* What the API answers to a GET: a transport error, or a status with a
\* body that parses as JSON ("obj") or does not ("bad").
GetOutcomes ==
    {<<TransportError, "none">>} \cup {<<st, "none">> : st \in {s \in Statuses : RaiseForStatus(s)}}
        \cup {<<st, b>> : st \in {s \in Statuses : ~RaiseForStatus(s)}, b \in {"obj", "bad"}}

\* headers = get_headers(); if not headers: return None
make_request(c, s) ==
    /\ call[c].pc = "idle"
    /\ nCalls < MaxCalls
    /\ nCalls' = nCalls + 1
    /\ LET h == get_headers(environ, s)
           r == [IdleCall EXCEPT !.svc = s, !.headers = h, !.environ0 = environ,
                                 !.dotenv0 = dotenv]
       IN  call' = [call EXCEPT ![c] =
                       IF h = {} THEN [r EXCEPT !.result = "None", !.pc = "done"]
                       ELSE [r EXCEPT !.pc = "get"]]
    /\ UNCHANGED <<environ, dotenv, DIGITRANSIT_KEY, API_KEY, fetch, issued>>

\* Mutant: every error status, not only 401, sets off the refresh.
FirstGetRefreshesOnAnyError(c) ==
    /\ call[c].pc = "get"
    /\ \E o \in GetOutcomes :
          LET r == [call[c] EXCEPT !.sent = Append(@, call[c].headers), !.first = o[1]]
          IN  call' = [call EXCEPT ![c] =
                  IF RaiseForStatus(o[1]) THEN [r EXCEPT !.pc = "refresh"]
                  ELSE Finish(r, o[1], o[2])]
    /\ UNCHANGED <<environ, dotenv, DIGITRANSIT_KEY, API_KEY, fetch, issued, nCalls>>

\* r = requests.get(url, headers=headers, timeout=10) and what follows it
\* when the status is not 401
FirstGet(c) ==
    /\ call[c].pc = "get"
    /\ \E o \in GetOutcomes :
          LET r == [call[c] EXCEPT !.sent = Append(@, call[c].headers), !.first = o[1]]
          IN  call' = [call EXCEPT ![c] =
                  IF o[1] = 401
                  THEN [r EXCEPT !.out = @ \o <<"token expired (401), attempting refresh">>,
                                 !.pc = "refresh"]
                  ELSE Finish(r, o[1], o[2])]
    /\ UNCHANGED <<environ, dotenv, DIGITRANSIT_KEY, API_KEY, fetch, issued, nCalls>>

\* Mutant: the `else: return None` branch is lost and a failed refresh falls
\* through to the retry.
RefreshFalseFallsThrough(r, printed) ==
    [r EXCEPT !.refreshed = "False",
              !.out = @ \o printed \o <<"Token refresh failed or not possible.">>,
              !.pc = "retry"]

\* refresh_*_token returned False: make_request prints and returns None.
RefreshFalse(r, printed) ==
    [r EXCEPT !.refreshed = "False",
              !.out = @ \o printed \o <<"Token refresh failed or not possible.">>,
              !.result = "None", !.pc = "done"]

\* Mutant: Fitbit's broken handler lets the call go on to the retry.
RefreshExceptFitbitRetries(r, bound) ==
    IF r.svc = "fitbit" /\ ~bound
    THEN [r EXCEPT !.refreshed = "raise", !.out = @ \o <<"Failed to refresh token">>,
                   !.pc = "retry"]
    ELSE RefreshFalse(r, <<"Failed to refresh token">>)

\* Mutant: the handler prints nothing.
RefreshExceptSilent(r, bound) ==
    IF r.svc = "fitbit" /\ ~bound
    THEN RequestError([r EXCEPT !.refreshed = "raise"])
    ELSE RefreshFalse(r, <<>>)

\* The `except Exception as e:` handler of refresh_*_token. Oura's guards
\* its read of r.text; Fitbit's reads r.text bare, and r is unbound when
\* requests.post itself raised, so the handler raises UnboundLocalError,
\* which make_request's own handler catches.
RefreshExcept(r, bound) ==
    IF r.svc = "fitbit" /\ ~bound
    THEN RequestError([r EXCEPT !.refreshed = "raise",
                                !.out = @ \o <<"Failed to refresh token">>])
    ELSE RefreshFalse(r, <<"Failed to refresh token">>)

\* Mutant: the refresh runs under a lock held until the call is done with the
\* token store; a second thread waits at the entry of refresh_*_token.
refresh_token_locked(c) ==
    /\ call[c].pc = "refresh"
    /\ \A d \in Threads \ {c} :
          call[d].pc \notin {"post", "save_env_access", "save_env_refresh",
                             "save_file_access", "save_file_refresh", "retry"}
    /\ LET e == environ[call[c].svc]
           r == [call[c] EXCEPT !.refreshCalls = @ + 1, !.refresh_token = e["REFRESH_TOKEN"]]
       IN  call' = [call EXCEPT ![c] =
               IF Truthy(e["CLIENT_ID"]) /\ Truthy(e["CLIENT_SECRET"]) /\ Truthy(e["REFRESH_TOKEN"])
               THEN [r EXCEPT !.pc = "post"]
               ELSE RefreshFalse(r, <<"Missing credentials. Cannot refresh.">>)]
    /\ UNCHANGED <<environ, dotenv, DIGITRANSIT_KEY, API_KEY, fetch, issued, nCalls>>

\* Mutant: the guard looks at the refresh token alone.
refresh_token_checks_token_only(c) ==
    /\ call[c].pc = "refresh"
    /\ LET e == environ[call[c].svc]
           r == [call[c] EXCEPT !.refreshCalls = @ + 1, !.refresh_token = e["REFRESH_TOKEN"]]
       IN  call' = [call EXCEPT ![c] =
               IF Truthy(e["REFRESH_TOKEN"])
               THEN [r EXCEPT !.pc = "post"]
               ELSE RefreshFalse(r, <<"Missing credentials. Cannot refresh.">>)]
    /\ UNCHANGED <<environ, dotenv, DIGITRANSIT_KEY, API_KEY, fetch, issued, nCalls>>

\* The entry of refresh_*_token: the three os.getenv reads and the
\* `if not all([...])` guard.
refresh_token(c) ==
    /\ call[c].pc = "refresh"
    /\ LET e == environ[call[c].svc]
           r == [call[c] EXCEPT !.refreshCalls = @ + 1, !.refresh_token = e["REFRESH_TOKEN"]]
       IN  call' = [call EXCEPT ![c] =
               IF Truthy(e["CLIENT_ID"]) /\ Truthy(e["CLIENT_SECRET"]) /\ Truthy(e["REFRESH_TOKEN"])
               THEN [r EXCEPT !.pc = "post"]
               ELSE RefreshFalse(r, <<"Missing credentials. Cannot refresh.">>)]
    /\ UNCHANGED <<environ, dotenv, DIGITRANSIT_KEY, API_KEY, fetch, issued, nCalls>>

\* The request refresh_*_token sends: Fitbit authenticates with HTTP Basic,
\* Oura puts client id and secret in the form body.
TokenRequest(s, e, rt) ==
    IF s = "fitbit"
    THEN [url |-> "https://api.fitbit.com/oauth2/token",
          basic |-> <<e["CLIENT_ID"], e["CLIENT_SECRET"]>>,
          data |-> [grant_type |-> "refresh_token", refresh_token |-> rt,
                    client_id |-> None, client_secret |-> None]]
    ELSE [url |-> "https://api.ouraring.com/oauth/token",
          basic |-> <<>>,
          data |-> [grant_type |-> "refresh_token", refresh_token |-> rt,
                    client_id |-> e["CLIENT_ID"], client_secret |-> e["CLIENT_SECRET"]]]

\* What the token endpoint answers: a transport error, an error status, or
\* a status raise_for_status lets through with a body that is no JSON
\* object ("bad") or a JSON object whose two token fields are absent,
\* empty, blank, the n-th issued token, or no string at all.
TokenOutcomes(n) ==
    {[status |-> TransportError, body |-> "none", access_token |-> None, refresh_token |-> None]}
    \cup {[status |-> st, body |-> "none", access_token |-> None, refresh_token |-> None] :
            st \in {s \in Statuses : RaiseForStatus(s)}}
    \cup {[status |-> st, body |-> "bad", access_token |-> None, refresh_token |-> None] :
            st \in {s \in Statuses : ~RaiseForStatus(s)}}
    \cup [status : {s \in Statuses : ~RaiseForStatus(s)}, body : {"obj"},
          access_token : {None, Str(<<>>), Str(<<SP>>), Str(<<Ch("a", n)>>), Num},
          refresh_token : {None, Str(<<>>), Str(<<Ch("r", n)>>), Num}]

\* Mutant: `if new_access or new_refresh`
TokenPostEitherToken(c) ==
    /\ call[c].pc = "post"
    /\ issued' = issued + 1
    /\ \E o \in TokenOutcomes(issued + 1) :
          LET r == [call[c] EXCEPT
                       !.posted = Append(@, TokenRequest(call[c].svc, environ[call[c].svc],
                                                         call[c].refresh_token)),
                       !.tokenStatus = o.status, !.tokenBody = o.body]
          IN  call' = [call EXCEPT ![c] =
                  IF o.status = TransportError THEN RefreshExcept(r, FALSE)
                  ELSE IF RaiseForStatus(o.status) \/ o.body = "bad" THEN RefreshExcept(r, TRUE)
                  ELSE LET t == [r EXCEPT !.new_access = o.access_token,
                                          !.new_refresh = o.refresh_token]
                       IN  IF Truthy(o.access_token) \/ Truthy(o.refresh_token)
                           THEN [t EXCEPT !.pc = "save_env_access"]
                           ELSE RefreshFalse(t, <<>>)]
    /\ UNCHANGED <<environ, dotenv, DIGITRANSIT_KEY, API_KEY, fetch, nCalls>>

\* r = requests.post(...); r.raise_for_status(); tokens = r.json();
\* new_access, new_refresh = tokens.get(...); if new_access and new_refresh
TokenPost(c) ==
    /\ call[c].pc = "post"
    /\ issued' = issued + 1
    /\ \E o \in TokenOutcomes(issued + 1) :
          LET r == [call[c] EXCEPT
                       !.posted = Append(@, TokenRequest(call[c].svc, environ[call[c].svc],
                                                         call[c].refresh_token)),
                       !.tokenStatus = o.status, !.tokenBody = o.body]
          IN  call' = [call EXCEPT ![c] =
                  IF o.status = TransportError THEN RefreshExcept(r, FALSE)
                  ELSE IF RaiseForStatus(o.status) \/ o.body = "bad" THEN RefreshExcept(r, TRUE)
                  ELSE LET t == [r EXCEPT !.new_access = o.access_token,
                                          !.new_refresh = o.refresh_token]
                       IN  IF Truthy(o.access_token) /\ Truthy(o.refresh_token)
                           THEN [t EXCEPT !.pc = "save_env_access"]
                           ELSE RefreshFalse(t, <<>>)]
    /\ UNCHANGED <<environ, dotenv, DIGITRANSIT_KEY, API_KEY, fetch, nCalls>>

\* ---------------------------------------------------------------- save_token
\* save_token is four writes in program order. os.environ[...] = v raises
\* TypeError when v is no str; set_key raises when .env cannot be written.
\* Either lands in the handler of refresh_*_token (r is bound by then).
SetEnviron(c, key, next) ==
    LET r == call[c]
        v == IF key = "ACCESS_TOKEN" THEN r.new_access ELSE r.new_refresh
    IN  IF v.t = "str"
        THEN /\ environ' = [environ EXCEPT ![r.svc][key] = v]
             /\ call' = [call EXCEPT ![c] = [r EXCEPT !.writes = @ \cup {<<"environ", key>>},
                                                      !.pc = next]]
        ELSE /\ call' = [call EXCEPT ![c] = RefreshExcept(r, TRUE)]
             /\ UNCHANGED environ

\* os.environ["*_ACCESS_TOKEN"] = access_token
SaveEnvAccess(c) ==
    /\ call[c].pc = "save_env_access"
    /\ SetEnviron(c, "ACCESS_TOKEN", "save_env_refresh")
    /\ UNCHANGED <<dotenv, DIGITRANSIT_KEY, API_KEY, fetch, issued, nCalls>>

\* os.environ["*_REFRESH_TOKEN"] = refresh_token
SaveEnvRefresh(c) ==
    /\ call[c].pc = "save_env_refresh"
    /\ SetEnviron(c, "REFRESH_TOKEN", "save_file_access")
    /\ UNCHANGED <<dotenv, DIGITRANSIT_KEY, API_KEY, fetch, issued, nCalls>>

\* Mutant: the refresh succeeds but make_request returns without the retry.
RefreshTrueNoRetry(r) ==
    [r EXCEPT !.refreshed = "True", !.out = @ \o <<"Successfully refreshed token.">>,
              !.result = "None", !.pc = "done"]

\* After the last write: print "Successfully refreshed"; return True
RefreshTrue(r) ==
    [r EXCEPT !.refreshed = "True", !.out = @ \o <<"Successfully refreshed token.">>,
              !.pc = "retry"]

\* Mutant: a failed write of .env is swallowed and save_token carries on.
set_key_swallows_failure(c, key, written, ok) ==
    LET r == call[c]
        v == IF key = "ACCESS_TOKEN" THEN r.new_access ELSE r.new_refresh
        w == IF ok THEN [r EXCEPT !.writes = @ \cup {<<"dotenv", key>>}] ELSE r
    IN  /\ dotenv' = IF ok THEN [dotenv EXCEPT ![r.svc][key] = v] ELSE dotenv
        /\ call' = [call EXCEPT ![c] =
                       IF written = "done" THEN RefreshTrue(w) ELSE [w EXCEPT !.pc = written]]

\* dotenv.set_key(ENV_PATH, key, value): the write takes effect (ok) or raises
set_key(c, key, written, ok) ==
    LET r == call[c]
        v == IF key = "ACCESS_TOKEN" THEN r.new_access ELSE r.new_refresh
        w == [r EXCEPT !.writes = @ \cup {<<"dotenv", key>>}]
    IN  IF ok
        THEN /\ dotenv' = [dotenv EXCEPT ![r.svc][key] = v]
             /\ call' = [call EXCEPT ![c] =
                            IF written = "done" THEN RefreshTrue(w) ELSE [w EXCEPT !.pc = written]]
        ELSE /\ call' = [call EXCEPT ![c] = RefreshExcept(r, TRUE)]
             /\ UNCHANGED dotenv

\* set_key(ENV_PATH, "*_ACCESS_TOKEN", access_token)
SaveFileAccess(c) ==
    /\ call[c].pc = "save_file_access"
    /\ \E ok \in BOOLEAN : set_key(c, "ACCESS_TOKEN", "save_file_refresh", ok)
    /\ UNCHANGED <<environ, DIGITRANSIT_KEY, API_KEY, fetch, issued, nCalls>>

\* set_key(ENV_PATH, "*_REFRESH_TOKEN", refresh_token), then return True
SaveFileRefresh(c) ==
    /\ call[c].pc = "save_file_refresh"
    /\ \E ok \in BOOLEAN : set_key(c, "REFRESH_TOKEN", "done", ok)
    /\ UNCHANGED <<environ, DIGITRANSIT_KEY, API_KEY, fetch, issued, nCalls>>

\* Mutant: the retry re-sends the headers built before the refresh.
RetryGetStaleHeaders(c) ==
    /\ call[c].pc = "retry"
    /\ \E o \in GetOutcomes :
          LET r == [call[c] EXCEPT !.sent = Append(@, call[c].headers), !.retry = o[1]]
          IN  call' = [call EXCEPT ![c] = Finish(r, o[1], o[2])]
    /\ UNCHANGED <<environ, dotenv, DIGITRANSIT_KEY, API_KEY, fetch, issued, nCalls>>

\* Mutant: the retry is itself checked for 401 and refreshed again (a loop).
RetryGetRefreshesAgain(c) ==
    /\ call[c].pc = "retry"
    /\ \E o \in GetOutcomes :
          LET h == get_headers(environ, call[c].svc)
              r == [call[c] EXCEPT !.headers = h, !.sent = Append(@, h), !.retry = o[1]]
          IN  call' = [call EXCEPT ![c] =
                  IF o[1] = 401 THEN [r EXCEPT !.pc = "refresh"] ELSE Finish(r, o[1], o[2])]
    /\ UNCHANGED <<environ, dotenv, DIGITRANSIT_KEY, API_KEY, fetch, issued, nCalls>>

\* headers = get_headers(); r = requests.get(url, headers=headers, timeout=10)
\* r.raise_for_status(); return r.json()
RetryGet(c) ==
    /\ call[c].pc = "retry"
    /\ \E o \in GetOutcomes :
          LET h == get_headers(environ, call[c].svc)
              r == [call[c] EXCEPT !.headers = h, !.sent = Append(@, h), !.retry = o[1]]
          IN  call' = [call EXCEPT ![c] = Finish(r, o[1], o[2])]
    /\ UNCHANGED <<environ, dotenv, DIGITRANSIT_KEY, API_KEY, fetch, issued, nCalls>>

\* make_request has returned; its locals are gone.
Return(c) ==
    /\ call[c].pc = "done"
    /\ call' = [call EXCEPT ![c] = IdleCall]
    /\ UNCHANGED <<environ, dotenv, DIGITRANSIT_KEY, API_KEY, fetch, issued, nCalls>>

\* A process restart: load_dotenv() reads the token variables from .env.
Reloaded(e, f) ==
    [t \in Services |-> [k \in AuthKeys |-> IF k \in TokenKeys THEN f[t][k] ELSE e[t][k]]]

load_dotenv ==
    /\ Quiet
    /\ environ' = Reloaded(environ, dotenv)
    /\ UNCHANGED <<dotenv, DIGITRANSIT_KEY, API_KEY, call, fetch, issued, nCalls>>

\* ------------------------------------------------------ Digitransit fetchers
\* Strings of the GraphQL answers are sequences of one-character strings.
NoneI == [t |-> "none", n |-> 0]
PyInt(n) == [t |-> "int", n |-> n]
\* `a or b` on two optional integers: 0 is falsy like None
OrElse(a, b) == IF a.t = "int" /\ a.n # 0 THEN a ELSE b

\* str.lower() on the alphabet in use
LowerCh(ch) == IF ch = "E" THEN "e" ELSE IF ch = "P" THEN "p" ELSE ch
Lower(x) == [i \in 1..Len(x) |-> LowerCh(x[i])]
\* `sub in x`
Contains(sub, x) ==
    \E i \in 1..(Len(x) + 1) : i + Len(sub) - 1 <= Len(x) /\ SubSeq(x, i, i + Len(sub) - 1) = sub
\* x.startswith(prefix)
StartsWith(x, prefix) == Len(prefix) <= Len(x) /\ SubSeq(x, 1, Len(prefix)) = prefix
\* int(a / b): float division, truncated toward zero
IntDiv(a, b) == IF a >= 0 THEN a \div b ELSE -((-a) \div b)

Digit(d) == <<"0", "1", "2", "3", "4", "5", "6", "7", "8", "9">>[d + 1]
RECURSIVE Decimal(_)
Decimal(n) == IF n < 10 THEN <<Digit(n)>> ELSE Decimal(n \div 10) \o <<Digit(n % 10)>>
\* f"{n:02}" for n >= 0
Pad2(n) == IF n < 10 THEN <<"0">> \o Decimal(n) ELSE Decimal(n)

\* Mutant: the hour is not reduced modulo 24.
time_str_no_wrap(departure_time) ==
    Pad2(departure_time \div 3600) \o <<":">> \o Pad2((departure_time % 3600) \div 60)

\* hours = (departure_time // 3600) % 24; minutes = (departure_time % 3600) // 60
\* time_str = f"{hours:02}:{minutes:02}"
time_str(departure_time) ==
    Pad2((departure_time \div 3600) % 24) \o <<":">> \o Pad2((departure_time % 3600) \div 60)

RECURSIVE Join(_)
\* ", ".join(departures)
Join(xs) ==
    IF xs = <<>> THEN <<>>
    ELSE IF Len(xs) = 1 THEN xs[1]
    ELSE xs[1] \o <<",", " ">> \o Join(Tail(xs))

\* Mutant: the departure is not moved to the next day when it lies before now.
RECURSIVE next_minutes_no_wrap(_, _, _, _)
next_minutes_no_wrap(stop_times, route_number, destination_keyword, current_seconds) ==
    IF stop_times = <<>> THEN 0
    ELSE LET stop_time == Head(stop_times)
             rest == next_minutes_no_wrap(Tail(stop_times), route_number, destination_keyword,
                                          current_seconds)
             departure_time == OrElse(stop_time.realtimeDeparture, stop_time.scheduledDeparture)
             minutes == IntDiv(departure_time.n - current_seconds, 60)
         IN  IF stop_time.shortName # route_number THEN rest
             ELSE IF ~Contains(Lower(destination_keyword), Lower(stop_time.tripHeadsign)) THEN rest
             ELSE IF departure_time.t = "none" THEN rest
             ELSE IF minutes >= 0 THEN minutes ELSE rest

RECURSIVE next_minutes(_, _, _, _)
\* The loop of get_next_departure_minutes over stop_times
next_minutes(stop_times, route_number, destination_keyword, current_seconds) ==
    IF stop_times = <<>> THEN 0
    ELSE LET stop_time == Head(stop_times)
             rest == next_minutes(Tail(stop_times), route_number, destination_keyword,
                                  current_seconds)
             departure_time == OrElse(stop_time.realtimeDeparture, stop_time.scheduledDeparture)
             time_diff == departure_time.n - current_seconds
             wrapped == IF time_diff < 0 THEN time_diff + 24 * 3600 ELSE time_diff
             minutes == IntDiv(wrapped, 60)
         IN  IF stop_time.shortName # route_number THEN rest
             ELSE IF ~Contains(Lower(destination_keyword), Lower(stop_time.tripHeadsign)) THEN rest
             ELSE IF departure_time.t = "none" THEN rest
             ELSE IF minutes >= 0 THEN minutes ELSE rest

RECURSIVE departures(_, _, _, _)
\* The loop of get_next_departures_formatted; destination_keyword <<>> is
\* the None / empty keyword that switches the headsign check off.
departures(stop_times, route_number, destination_keyword, limit) ==
    IF stop_times = <<>> \/ limit <= 0 THEN <<>>
    ELSE LET stop_time == Head(stop_times)
             departure_time == OrElse(stop_time.realtimeDeparture, stop_time.scheduledDeparture)
             skip == \/ ~StartsWith(stop_time.shortName, route_number)
                     \/ /\ destination_keyword # <<>>
                        /\ ~Contains(Lower(destination_keyword), Lower(stop_time.tripHeadsign))
                     \/ departure_time.t = "none"
         IN  IF skip THEN departures(Tail(stop_times), route_number, destination_keyword, limit)
             ELSE <<time_str(departure_time.n)>>
                  \o departures(Tail(stop_times), route_number, destination_keyword, limit - 1)

\* sum_bicycles over the byType items of one station
RECURSIVE sum_bicycles(_)
sum_bicycles(byType) ==
    IF byType = <<>> THEN 0
    ELSE (IF Head(byType).formFactor = "BICYCLE" THEN Head(byType).count ELSE 0)
         + sum_bicycles(Tail(byType))

\* Longest stoptimesWithoutPatterns list an answer carries
MaxStops == 2
\* The limit parameter of get_next_departures_formatted
DefaultLimit == 3

Tram == <<"1">>
Eira == <<"E", "i", "r", "a">>
StopTimeSet ==
    {[shortName |-> <<"1">>, tripHeadsign |-> <<"E", "i", "r", "a">>,
      realtimeDeparture |-> PyInt(57300), scheduledDeparture |-> PyInt(57240)],
     [shortName |-> <<"1", "T">>, tripHeadsign |-> <<"e", "i", "r", "a">>,
      realtimeDeparture |-> PyInt(0), scheduledDeparture |-> PyInt(90000)],
     [shortName |-> <<"1">>, tripHeadsign |-> <<"P">>,
      realtimeDeparture |-> NoneI, scheduledDeparture |-> PyInt(120)],
     [shortName |-> <<"1">>, tripHeadsign |-> <<"a", "E", "I", "R", "A">>,
      realtimeDeparture |-> NoneI, scheduledDeparture |-> NoneI]}
StopTimeLists == UNION {[1..n -> StopTimeSet] : n \in 0..MaxStops}
Clock == {0, 57301}
ByTypeLists ==
    {<<>>, <<[formFactor |-> "BICYCLE", count |-> 3]>>,
     <<[formFactor |-> "SCOOTER", count |-> 5], [formFactor |-> "BICYCLE", count |-> 2]>>}

\* The two Flask routes of app.py run fetch_bike_counts and answer with it.
Routes == {"root_custom_json", "lametric_frames"}
FetchOps ==
    {"get_next_departure_minutes", "get_next_departures_formatted", "fetch_bike_counts"}
        \cup Routes
\* The Digitransit fetcher an operation runs
Fetcher(op) == IF op \in Routes THEN "fetch_bike_counts" ELSE op

\* The value a fetcher hands back: t is its Python type, or "raise".
Ret(t, i, x) == [t |-> t, i |-> i, s |-> x]

\* `if not API_KEY:` -- the first statement of each fetcher
NoKey(op) ==
    IF op = "get_next_departure_minutes" THEN Ret("int", 0, <<>>)
    ELSE IF op = "get_next_departures_formatted" THEN Ret("str", 0, <<>>)
    ELSE Ret("raise", 0, <<"Missing DIGITRANSIT_KEY in environment/.env">>)

\* What a fetcher returns once the answer is in hand
Fetched(op, o, now) ==
    IF op = "fetch_bike_counts"
    THEN IF o.status = TransportError THEN Ret("raise", 0, <<"RequestException">>)
         ELSE IF o.status = 401 THEN Ret("raise", 0, <<"Digitransit 401 Unauthorized">>)
         ELSE IF RaiseForStatus(o.status) THEN Ret("raise", 0, <<"HTTPError">>)
         ELSE IF o.body = "bad" THEN Ret("raise", 0, <<"JSONDecodeError">>)
         ELSE IF o.body = "errors" THEN Ret("raise", 0, <<"GraphQL error">>)
         ELSE Ret("dict", 0, <<sum_bicycles(o.poh), sum_bicycles(o.kos)>>)
    ELSE LET default == NoKey(op)
         IN  IF o.status = TransportError \/ RaiseForStatus(o.status) \/ o.body = "bad"
             THEN default
             ELSE IF o.body \in {"errors", "nostop"} THEN default
             ELSE IF op = "get_next_departure_minutes"
             THEN Ret("int", next_minutes(o.stop_times, Tram, Eira, now), <<>>)
             ELSE Ret("str", 0, Join(departures(o.stop_times, Tram, <<>>, DefaultLimit)))

\* Mutant: on a failed fetch the route answers 200 with the placeholder
\* snapshot and zero counts.
root_custom_json_swallows(counts) ==
    LET bikes == IF counts.t = "raise" THEN <<0, 0>> ELSE counts.s
    IN  Ret("response", 200,
            <<<<"biked_km", <<"6", ".", "3">>>>,
              <<"pohjolankatu_alepabikes", Decimal(bikes[1])>>,
              <<"koskelantie_alepabikes", Decimal(bikes[2])>>,
              <<"steps", Decimal(7421)>>,
              <<"activity_percentage", Decimal(91)>>,
              <<"readiness", Decimal(83)>>,
              <<"sleep_time", <<"7", ".", "4", "2">>>>,
              <<"sleep_score", Decimal(79)>>,
              <<"calories_intake", Decimal(2232)>>,
              <<"calories_consumed", Decimal(2532)>>>>)

\* GET / : the try/except around fetch_bike_counts, then the snapshot.
\* counts is what fetch_bike_counts returned or raised; a JSON body is a
\* sequence of <<key, value>> pairs.
root_custom_json(counts) ==
    IF counts.t = "raise" THEN Ret("response", 502, <<<<"error", counts.s>>>>)
    ELSE Ret("response", 200,
            <<<<"biked_km", <<"6", ".", "3">>>>,
              <<"pohjolankatu_alepabikes", Decimal(counts.s[1])>>,
              <<"koskelantie_alepabikes", Decimal(counts.s[2])>>,
              <<"steps", Decimal(7421)>>,
              <<"activity_percentage", Decimal(91)>>,
              <<"readiness", Decimal(83)>>,
              <<"sleep_time", <<"7", ".", "4", "2">>>>,
              <<"sleep_score", Decimal(79)>>,
              <<"calories_intake", Decimal(2232)>>,
              <<"calories_consumed", Decimal(2532)>>>>)

\* GET /lametric : one frame per station, f"{name}: {bikes} (bicycle)".
\* The answers modelled carry no station name, so the defaults are shown.
lametric_frames(counts) ==
    IF counts.t = "raise" THEN Ret("response", 502, <<<<"error", counts.s>>>>)
    ELSE Ret("response", 200,
            <<<<"frames",
                <<<<<<"text", <<"Pohjolankatu", ":", " ">> \o Decimal(counts.s[1])>>,
                    <<"icon", <<"i1234">>>>>>,
                  <<<<"text", <<"Koskelantie", ":", " ">> \o Decimal(counts.s[2])>>,
                    <<"icon", <<"i1234">>>>>>>>>>>>)

\* What the operation hands back given what its fetcher returned or raised
Handled(op, r) ==
    IF op = "root_custom_json" THEN root_custom_json(r)
    ELSE IF op = "lametric_frames" THEN lametric_frames(r)
    ELSE r

FetchOutcomes(op) ==
    LET blank == [status |-> 200, body |-> "none", stop_times |-> <<>>, poh |-> <<>>, kos |-> <<>>]
        passed == {s \in Statuses : ~RaiseForStatus(s)}
    IN  {[blank EXCEPT !.status = st] : st \in {TransportError} \cup (Statuses \ passed)}
        \cup {[blank EXCEPT !.status = st, !.body = b] :
                 st \in passed, b \in {"bad", "errors"}}
        \cup (IF op = "fetch_bike_counts"
              THEN {[blank EXCEPT !.status = st, !.body = "obj", !.poh = p, !.kos = k] :
                       st \in passed, p \in ByTypeLists, k \in ByTypeLists}
              ELSE {[blank EXCEPT !.body = "nostop"]}
                   \cup {[blank EXCEPT !.body = "obj", !.stop_times = l] : l \in StopTimeLists})

\* The entry of a fetcher: the API_KEY guard
FetchStart(op) ==
    /\ Quiet
    /\ nCalls < MaxCalls
    /\ nCalls' = nCalls + 1
    /\ fetch' = IF API_KEY = <<>>
                THEN [IdleFetch EXCEPT !.pc = "done", !.op = op,
                                       !.result = Handled(op, NoKey(Fetcher(op)))]
                ELSE [IdleFetch EXCEPT !.pc = "post", !.op = op]
    /\ UNCHANGED <<environ, dotenv, DIGITRANSIT_KEY, API_KEY, call, issued>>

\* r = requests.post(GRAPHQL_URL, ...) and the rest of the fetcher
FetchPost ==
    /\ fetch.pc = "post"
    /\ \E o \in FetchOutcomes(Fetcher(fetch.op)), now \in Clock :
          fetch' = [fetch EXCEPT !.pc = "done", !.requests = @ + 1,
                                 !.answer = <<o.status, o.body>>,
                                 !.result = Handled(fetch.op, Fetched(Fetcher(fetch.op), o, now))]
    /\ UNCHANGED <<environ, dotenv, DIGITRANSIT_KEY, API_KEY, call, issued, nCalls>>

FetchReturn ==
    /\ fetch.pc = "done"
    /\ fetch' = IdleFetch
    /\ UNCHANGED <<environ, dotenv, DIGITRANSIT_KEY, API_KEY, call, issued, nCalls>>

\* ---------------------------------------------- Fitbit / Oura / rink fetchers
\* Longest document list a JSON answer carries
MaxDocs == 2
\* datetime.date.today(), as a day number
Today == 2

\* What r.json() hands a fetcher: a JSON object whose list ("data",
\* "weight", "observations") is docs, the empty object, or a JSON value that
\* is no object (a non-empty array); "none" is make_request's None.
\* A document has its day, its kind (the workout's activity, the
\* observation's property) and two values, either of which may be null.
NoneBody == [kind |-> "none", docs |-> <<>>]
DocSet ==
    {[day |-> 1, tag |-> "cycling", value |-> PyInt(7), score |-> PyInt(80)],
     [day |-> 2, tag |-> "cycling", value |-> NoneI, score |-> PyInt(0)],
     [day |-> 2, tag |-> "running", value |-> PyInt(3), score |-> NoneI],
     [day |-> 1, tag |-> "ice_skating_field_condition", value |-> PyInt(1), score |-> PyInt(60)]}
DocLists == UNION {[1..n -> DocSet] : n \in 0..MaxDocs}
Bodies ==
    {[kind |-> "empty", docs |-> <<>>], [kind |-> "list", docs |-> <<>>]}
        \cup {[kind |-> "dict", docs |-> l] : l \in DocLists}

\* `if not data`
Falsy(data) == data.kind \in {"none", "empty"}
\* sorted(docs, key=day, reverse=True)[0]: the first document of the
\* greatest day (the sort is stable)
Latest(docs) ==
    LET top == CHOOSE d \in {docs[i].day : i \in 1..Len(docs)} :
                   \A i \in 1..Len(docs) : docs[i].day <= d
    IN  docs[CHOOSE i \in 1..Len(docs) :
                 docs[i].day = top /\ \A j \in 1..(i - 1) : docs[j].day # top]
\* The first of the documents at the positions hits, or none
FirstOf(docs, hits) ==
    IF hits = {} THEN <<>>
    ELSE <<docs[CHOOSE i \in hits : \A j \in hits : i <= j]>>
\* data.get(...) on a JSON value that is no object
AttributeError == Ret("raise", 0, <<"AttributeError">>)

ClientOps ==
    {"get_latest_weight", "get_cycling_distance_this_year", "get_activity_calories",
     "get_sleep_data", "get_daily_metrics"}
ServiceOf(op) == IF op = "get_latest_weight" THEN "fitbit" ELSE "oura"
\* make_request calls one run of the fetcher makes at most
Requests(op) == IF op \in {"get_sleep_data", "get_daily_metrics"} THEN 2 ELSE 1

\* fitbit.get_latest_weight, from `if not data` on; the parsing is in a try
get_latest_weight(data) ==
    IF Falsy(data) THEN Ret("float", 0, <<>>)
    ELSE IF data.kind = "list" THEN Ret("float", 0, <<>>)
    ELSE IF data.docs = <<>> THEN Ret("float", 0, <<>>)
    ELSE LET weight_kg == Latest(data.docs).value
         IN  Ret("float", OrElse(weight_kg, PyInt(0)).n, <<>>)

RECURSIVE total_distance(_)
total_distance(docs) ==
    IF docs = <<>> THEN 0
    ELSE (IF Head(docs).tag = "cycling" /\ Head(docs).value.t # "none"
          THEN Head(docs).value.n ELSE 0) + total_distance(Tail(docs))

\* oura.get_cycling_distance_this_year, from `if not workout_data` on
get_cycling_distance_this_year(data) ==
    IF Falsy(data) THEN Ret("float", 0, <<>>)
    ELSE IF data.kind = "list" THEN AttributeError
    ELSE Ret("float", total_distance(data.docs), <<>>)

\* oura.get_activity_calories, from `if not data` on
get_activity_calories(data) ==
    IF Falsy(data) THEN Ret("int", 0, <<>>)
    ELSE IF data.kind = "list" THEN AttributeError
    ELSE IF data.docs = <<>> THEN Ret("int", 0, <<>>)
    ELSE LET total_calories == Latest(data.docs).value
         IN  IF total_calories.t = "none" THEN Ret("None", 0, <<>>)
             ELSE Ret("int", total_calories.n, <<>>)

\* oura.get_sleep_data once both answers are in hand and truthy
get_sleep_data(sleep_data, daily_data) ==
    IF sleep_data.kind = "list" \/ daily_data.kind = "list" THEN AttributeError
    ELSE IF sleep_data.docs = <<>> THEN Ret("None", 0, <<>>)
    ELSE LET latest_sleep == Latest(sleep_data.docs)
             docs == daily_data.docs
             daily == FirstOf(docs, {i \in 1..Len(docs) : docs[i].day = latest_sleep.day})
             score == IF daily = <<>> THEN PyInt(0) ELSE daily[1].score
         IN  Ret("dict", 0, <<latest_sleep.value, score, PyInt(latest_sleep.day)>>)

\* oura.get_daily_metrics: the readiness part, on result
readiness_part(result, readiness_data) ==
    IF Falsy(readiness_data) THEN result
    ELSE IF readiness_data.kind = "list" THEN AttributeError
    ELSE IF readiness_data.docs = <<>> THEN result
    ELSE [result EXCEPT !.s[1] = Latest(readiness_data.docs).score]

\* oura.get_daily_metrics: the activity part, on result
activity_part(result, activity_data) ==
    IF Falsy(activity_data) THEN result
    ELSE IF activity_data.kind = "list" THEN AttributeError
    ELSE IF activity_data.docs = <<>> THEN result
    ELSE LET docs == activity_data.docs
             today_activity == FirstOf(docs, {i \in 1..Len(docs) : docs[i].day = Today})
             doc == IF today_activity # <<>> THEN today_activity[1]
                    ELSE Latest(activity_data.docs)
         IN  [result EXCEPT !.s[2] = doc.value, !.s[3] = doc.score]

\* The documented default of a fetcher
Default(op) ==
    IF op \in {"get_latest_weight", "get_cycling_distance_this_year"} THEN Ret("float", 0, <<>>)
    ELSE IF op = "get_activity_calories" THEN Ret("int", 0, <<>>)
    ELSE IF op = "get_sleep_data" THEN Ret("None", 0, <<>>)
    ELSE IF op = "get_daily_metrics" THEN Ret("dict", 0, <<PyInt(0), PyInt(0), PyInt(0)>>)
    ELSE IF op = "get_condition" THEN Ret("str", 0, <<"Error">>)
    ELSE NoKey(op)

\* The fetcher after its n-th make_request returned data: f is the fetch
\* record, whose result holds what the first request left behind.
AfterRequest(f, data) ==
    LET done(res) == [f EXCEPT !.pc = "done", !.requests = @ + 1, !.result = res]
        again(res) == [f EXCEPT !.requests = @ + 1, !.result = res]
    IN  IF f.op = "get_latest_weight" THEN done(get_latest_weight(data))
        ELSE IF f.op = "get_cycling_distance_this_year"
        THEN done(get_cycling_distance_this_year(data))
        ELSE IF f.op = "get_activity_calories" THEN done(get_activity_calories(data))
        ELSE IF f.op = "get_sleep_data"
        THEN IF Falsy(data) THEN done(Ret("None", 0, <<>>))
             ELSE IF f.requests = 0 THEN again(Ret("pending", 0, <<data>>))
             ELSE done(get_sleep_data(f.result.s[1], data))
        ELSE IF f.requests = 0
             THEN LET res == readiness_part(Default("get_daily_metrics"), data)
                  IN  IF res.t = "raise" THEN done(res) ELSE again(res)
             ELSE done(activity_part(f.result, data))

\* The entry of a Fitbit / Oura fetcher, up to its first make_request
ClientStart(op) ==
    /\ Quiet
    /\ nCalls + Requests(op) <= MaxCalls
    /\ fetch' = [IdleFetch EXCEPT !.pc = "request", !.op = op]
    /\ UNCHANGED <<environ, dotenv, DIGITRANSIT_KEY, API_KEY, call, issued, nCalls>>

\* data = make_request(url): the fetcher's call
ClientRequest(c) ==
    /\ fetch.pc = "request"
    /\ make_request(c, ServiceOf(fetch.op))

\* make_request has returned and the fetcher goes on with the data; the
\* content of a parsed body is whatever the API sent.
ClientData(c) ==
    /\ fetch.pc = "request"
    /\ call[c].pc = "done"
    /\ \E body \in Bodies :
          LET r == call[c]
              data == IF r.result = "None" THEN NoneBody ELSE body
              f == [fetch EXCEPT !.answer =
                       <<IF r.retry >= 0 THEN r.retry ELSE r.first, data.kind>>]
          IN  fetch' = AfterRequest(f, data)
    /\ call' = [call EXCEPT ![c] = IdleCall]
    /\ UNCHANGED <<environ, dotenv, DIGITRANSIT_KEY, API_KEY, issued, nCalls>>

\* hockey.get_condition: one GET with timeout=10, everything inside a try
get_condition ==
    /\ Quiet
    /\ nCalls < MaxCalls
    /\ nCalls' = nCalls + 1
    /\ \E o \in GetOutcomes, body \in Bodies :
          LET failed == o[1] = TransportError \/ RaiseForStatus(o[1]) \/ o[2] = "bad"
              obs == FirstOf(body.docs, {i \in 1..Len(body.docs) :
                                            body.docs[i].tag = "ice_skating_field_condition"})
              res == IF failed \/ body.kind = "list" THEN Ret("str", 0, <<"Error">>)
                     ELSE IF obs = <<>> THEN Ret("str", 0, <<"Unknown">>)
                     ELSE Ret("condition", obs[1].value.n, <<>>)
          IN  fetch' = [IdleFetch EXCEPT !.pc = "done", !.op = "get_condition",
                                         !.requests = 1,
                                         !.answer = <<o[1], IF failed THEN "none" ELSE body.kind>>,
                                         !.result = res]
    /\ UNCHANGED <<environ, dotenv, DIGITRANSIT_KEY, API_KEY, call, issued>>

\* ------------------------------------------------------------- specification
\* The thread that runs the calls of the single-threaded program
MainThread == {1}

Next ==
    \/ \E c \in MainThread, s \in Services : Quiet /\ make_request(c, s)
    \/ \E c \in MainThread : FirstGet(c)
    \/ \E c \in MainThread : refresh_token(c)
    \/ \E c \in MainThread : TokenPost(c)
    \/ \E c \in MainThread : SaveEnvAccess(c)
    \/ \E c \in MainThread : SaveEnvRefresh(c)
    \/ \E c \in MainThread : SaveFileAccess(c)
    \/ \E c \in MainThread : SaveFileRefresh(c)
    \/ \E c \in MainThread : RetryGet(c)
    \/ \E c \in MainThread : Return(c)
    \/ load_dotenv
    \/ \E op \in FetchOps : FetchStart(op)
    \/ FetchPost
    \/ FetchReturn

Spec == Init /\ [][Next]_vars

\* The two client modules run on a threaded server: each thread of Threads
\* runs one make_request call and the calls interleave step by step. Neither
\* module takes a lock, so no step of one thread waits for the other.
InitThreaded ==
    /\ environ = [t \in Services |-> DefaultConfig]
    /\ DIGITRANSIT_KEY = DefaultKey
    /\ dotenv = [t \in Services |-> [k \in TokenKeys |-> environ[t][k]]]
    /\ API_KEY = Strip(GetenvOr(DIGITRANSIT_KEY, Str(<<>>)).s)
    /\ call = [c \in Threads |-> IdleCall]
    /\ fetch = IdleFetch
    /\ issued = 0
    /\ nCalls = 0

NextThreaded ==
    \/ \E c \in Threads, s \in Services : make_request(c, s)
    \/ \E c \in Threads : FirstGet(c)
    \/ \E c \in Threads : refresh_token(c)
    \/ \E c \in Threads : TokenPost(c)
    \/ \E c \in Threads : SaveEnvAccess(c)
    \/ \E c \in Threads : SaveEnvRefresh(c)
    \/ \E c \in Threads : SaveFileAccess(c)
    \/ \E c \in Threads : SaveFileRefresh(c)
    \/ \E c \in Threads : RetryGet(c)

SpecThreaded == InitThreaded /\ [][NextThreaded]_vars

\* The fetchers the aggregator runs, one after another in one thread, in a
\* complete deployment: the Fitbit and Oura fetchers over make_request, the
\* rink fetcher, and the Digitransit fetchers.
InitFetchers == InitThreaded

NextFetchers ==
    \/ \E op \in ClientOps : ClientStart(op)
    \/ \E c \in MainThread : ClientRequest(c)
    \/ \E c \in MainThread : FirstGet(c)
    \/ \E c \in MainThread : refresh_token(c)
    \/ \E c \in MainThread : TokenPost(c)
    \/ \E c \in MainThread : SaveEnvAccess(c)
    \/ \E c \in MainThread : SaveEnvRefresh(c)
    \/ \E c \in MainThread : SaveFileAccess(c)
    \/ \E c \in MainThread : SaveFileRefresh(c)
    \/ \E c \in MainThread : RetryGet(c)
    \/ \E c \in MainThread : ClientData(c)
    \/ get_condition
    \/ \E op \in FetchOps : FetchStart(op)
    \/ FetchPost
    \/ FetchReturn

SpecFetchers == InitFetchers /\ [][NextFetchers]_vars

\* The formatting of get_next_departures_formatted on its own: the answer
\* lists one departure of tram 1, scheduled at any second up to MaxSeconds
\* (more than a day, so that the clock wraps), and the fetcher renders it.
MaxSeconds == 90000

InitFormat ==
    /\ environ = [t \in Services |-> DefaultConfig]
    /\ DIGITRANSIT_KEY = DefaultKey
    /\ dotenv = [t \in Services |-> [k \in TokenKeys |-> environ[t][k]]]
    /\ API_KEY = Strip(GetenvOr(DIGITRANSIT_KEY, Str(<<>>)).s)
    /\ call = [c \in Threads |-> IdleCall]
    /\ \E d \in 0..MaxSeconds :
          fetch = [IdleFetch EXCEPT !.pc = "format", !.op = "get_next_departures_formatted",
                                    !.answer = <<d, "obj">>]
    /\ issued = 0
    /\ nCalls = 0

\* The loop of get_next_departures_formatted on that answer
FormatDeparture ==
    /\ fetch.pc = "format"
    /\ LET stop_time == [shortName |-> Tram, tripHeadsign |-> Eira,
                         realtimeDeparture |-> NoneI,
                         scheduledDeparture |-> PyInt(fetch.answer[1])]
           o == [status |-> 200, body |-> "obj", stop_times |-> <<stop_time>>,
                 poh |-> <<>>, kos |-> <<>>]
       IN  fetch' = [fetch EXCEPT !.pc = "done", !.requests = 1,
                                  !.result = Fetched(fetch.op, o, 0)]
    /\ UNCHANGED <<environ, dotenv, DIGITRANSIT_KEY, API_KEY, call, issued, nCalls>>

NextFormat == FormatDeparture

SpecFormat == InitFormat /\ [][NextFormat]_vars

\* The loop of get_next_departure_minutes on its own: the answer lists up
\* to MaxStops stop times drawn from DepartureSet (a realtime departure, a
\* scheduled one only, a realtime departure at 0 s, none at all, another
\* route, another headsign, a departure past 24 h) and the clock is one of
\* Nows. fetch.answer keeps the two inputs.
DepartureSet ==
    {[shortName |-> <<"1">>, tripHeadsign |-> <<"E", "i", "r", "a">>,
      realtimeDeparture |-> PyInt(57300), scheduledDeparture |-> PyInt(57240)],
     [shortName |-> <<"1">>, tripHeadsign |-> <<"a", "E", "I", "R", "A">>,
      realtimeDeparture |-> NoneI, scheduledDeparture |-> PyInt(120)],
     [shortName |-> <<"1">>, tripHeadsign |-> <<"E", "i", "r", "a">>,
      realtimeDeparture |-> PyInt(0), scheduledDeparture |-> PyInt(120)],
     [shortName |-> <<"1">>, tripHeadsign |-> <<"E", "i", "r", "a">>,
      realtimeDeparture |-> NoneI, scheduledDeparture |-> NoneI],
     [shortName |-> <<"1", "T">>, tripHeadsign |-> <<"E", "i", "r", "a">>,
      realtimeDeparture |-> PyInt(60), scheduledDeparture |-> PyInt(60)],
     [shortName |-> <<"1">>, tripHeadsign |-> <<"P">>,
      realtimeDeparture |-> PyInt(60), scheduledDeparture |-> PyInt(60)],
     [shortName |-> <<"1">>, tripHeadsign |-> <<"e", "i", "r", "a">>,
      realtimeDeparture |-> NoneI, scheduledDeparture |-> PyInt(0)],
     [shortName |-> <<"1">>, tripHeadsign |-> <<"E", "i", "r", "a">>,
      realtimeDeparture |-> PyInt(90000), scheduledDeparture |-> PyInt(57240)]}
DepartureLists == UNION {[1..n -> DepartureSet] : n \in 0..MaxStops}
Nows == {0, 59, 57301, 86399}

InitMinutes ==
    /\ environ = [t \in Services |-> DefaultConfig]
    /\ DIGITRANSIT_KEY = DefaultKey
    /\ dotenv = [t \in Services |-> [k \in TokenKeys |-> environ[t][k]]]
    /\ API_KEY = Strip(GetenvOr(DIGITRANSIT_KEY, Str(<<>>)).s)
    /\ call = [c \in Threads |-> IdleCall]
    /\ \E l \in DepartureLists, now \in Nows :
          fetch = [IdleFetch EXCEPT !.pc = "minutes", !.op = "get_next_departure_minutes",
                                    !.answer = <<now, l>>]
    /\ issued = 0
    /\ nCalls = 0

\* get_next_departure_minutes on that answer at that time
MinutesDeparture ==
    /\ fetch.pc = "minutes"
    /\ LET o == [status |-> 200, body |-> "obj", stop_times |-> fetch.answer[2],
                 poh |-> <<>>, kos |-> <<>>]
       IN  fetch' = [fetch EXCEPT !.pc = "done", !.requests = 1,
                                  !.result = Fetched(fetch.op, o, fetch.answer[1])]
    /\ UNCHANGED <<environ, dotenv, DIGITRANSIT_KEY, API_KEY, call, issued, nCalls>>

NextMinutes == MinutesDeparture

SpecMinutes == InitMinutes /\ [][NextMinutes]_vars

\* The two clients side by side: thread 1 runs one Fitbit call, thread 2 one
\* Oura call, from the same configuration, each against its own API and
\* token endpoint.
TwinOf(c) == IF c = 1 THEN "fitbit" ELSE "oura"

InitTwin ==
    /\ \E cfg \in Configs : environ = [t \in Services |-> cfg]
    /\ DIGITRANSIT_KEY = DefaultKey
    /\ dotenv = [t \in Services |-> [k \in TokenKeys |-> environ[t][k]]]
    /\ API_KEY = Strip(GetenvOr(DIGITRANSIT_KEY, Str(<<>>)).s)
    /\ call = [c \in Threads |-> IdleCall]
    /\ fetch = IdleFetch
    /\ issued = 0
    /\ nCalls = 0

NextTwin ==
    \/ \E c \in Threads : make_request(c, TwinOf(c))
    \/ \E c \in Threads : FirstGet(c)
    \/ \E c \in Threads : refresh_token(c)
    \/ \E c \in Threads : TokenPost(c)
    \/ \E c \in Threads : SaveEnvAccess(c)
    \/ \E c \in Threads : SaveEnvRefresh(c)
    \/ \E c \in Threads : SaveFileAccess(c)
    \/ \E c \in Threads : SaveFileRefresh(c)
    \/ \E c \in Threads : RetryGet(c)

SpecTwin == InitTwin /\ [][NextTwin]_vars

\* Termination. requests.get is called with timeout=10 in both clients and
\* Oura's refresh POST with timeout=10; Fitbit's refresh POST is called with
\* no timeout. An HTTP call issued with a timeout returns or raises in the
\* end; one issued without may wait for ever. Statements that make no HTTP
\* call always go on.
HasTimeout(c) ==
    \/ call[c].pc \in {"get", "retry"}
    \/ call[c].pc = "post" /\ call[c].svc = "oura"

Http(c) == FirstGet(c) \/ TokenPost(c) \/ RetryGet(c)

Local(c) ==
    \/ refresh_token(c)
    \/ SaveEnvAccess(c) \/ SaveEnvRefresh(c)
    \/ SaveFileAccess(c) \/ SaveFileRefresh(c)

NextLive ==
    \/ \E c \in MainThread, s \in Services : make_request(c, s)
    \/ \E c \in MainThread : FirstGet(c)
    \/ \E c \in MainThread : refresh_token(c)
    \/ \E c \in MainThread : TokenPost(c)
    \/ \E c \in MainThread : SaveEnvAccess(c)
    \/ \E c \in MainThread : SaveEnvRefresh(c)
    \/ \E c \in MainThread : SaveFileAccess(c)
    \/ \E c \in MainThread : SaveFileRefresh(c)
    \/ \E c \in MainThread : RetryGet(c)
    \/ \E c \in MainThread : Return(c)

Fairness ==
    \A c \in MainThread :
        /\ WF_vars(Local(c))
        /\ WF_vars(HasTimeout(c) /\ Http(c))

SpecLive == InitThreaded /\ [][NextLive]_vars /\ Fairness

\* ==================================================================== claims
Done(c) == call[c].pc = "done"
Gets(c) == Len(call[c].sent)
Posts(c) == Len(call[c].posted)
Is2xx(st) == st >= 200 /\ st < 300
AllWrites == {"environ", "dotenv"} \X TokenKeys
\* The token endpoint's answer held both tokens, each a non-empty string.
BothNewTokens(c) ==
    /\ call[c].tokenBody = "obj"
    /\ call[c].new_access.t = "str" /\ call[c].new_access.s # <<>>
    /\ call[c].new_refresh.t = "str" /\ call[c].new_refresh.s # <<>>
\* One of the three refresh credentials was absent or empty when the call's
\* refresh ran.
CredsMissing(c) ==
    /\ call[c].refreshCalls >= 1
    /\ \E k \in {"CLIENT_ID", "CLIENT_SECRET", "REFRESH_TOKEN"} :
          ~Truthy(call[c].environ0[call[c].svc][k])

\* C1 as stated: a 401, then a 2xx token answer with both new tokens, gives
\* exactly two GETs and exactly one POST.
C1_TwoGetsWheneverTokensArrive ==
    \A c \in Threads :
        Done(c) /\ call[c].first = 401 /\ Is2xx(call[c].tokenStatus) /\ BothNewTokens(c)
            => Gets(c) = 2 /\ Posts(c) = 1

\* C1 (amended): a 401, then a 2xx token answer with both new tokens, gives
\* exactly two GETs and one POST when all four writes of save_token took
\* effect, whatever the retry returns; when a write of .env fails the call
\* ends in failure after one GET and one POST.
C1_TwoGetsOnePost ==
    \A c \in Threads :
        Done(c) /\ call[c].first = 401 /\ Is2xx(call[c].tokenStatus) /\ BothNewTokens(c)
            => /\ Posts(c) = 1
               /\ IF call[c].writes = AllWrites
                  THEN Gets(c) = 2
                  ELSE Gets(c) = 1 /\ call[c].result = "None"

C1_Witness ==
    \E c \in Threads :
        /\ Done(c) /\ call[c].first = 401 /\ call[c].tokenStatus = 200 /\ BothNewTokens(c)
        /\ call[c].writes = AllWrites /\ Gets(c) = 2 /\ Posts(c) = 1
        /\ call[c].retry = 401

\* C2 as stated: a 401 and then missing credentials or a non-2xx answer of
\* the token endpoint give one GET, one refresh attempt, no retry, failure.
C2_AnyNon2xxFailsTheRefresh ==
    \A c \in Threads :
        /\ Done(c) /\ call[c].first = 401
        /\ \/ CredsMissing(c)
           \/ Posts(c) >= 1 /\ call[c].tokenStatus # TransportError /\ ~Is2xx(call[c].tokenStatus)
        => /\ Gets(c) = 1 /\ call[c].refreshCalls = 1 /\ call[c].retry = -1
           /\ call[c].result = "None"

\* C2 (amended): a 401 and then missing credentials or a 4xx/5xx answer of
\* the token endpoint give one GET, one refresh attempt, no retry, failure.
C2_RefreshFailureNoRetry ==
    \A c \in Threads :
        /\ Done(c) /\ call[c].first = 401
        /\ \/ CredsMissing(c)
           \/ Posts(c) >= 1 /\ RaiseForStatus(call[c].tokenStatus)
        => /\ Gets(c) = 1 /\ call[c].refreshCalls = 1 /\ call[c].retry = -1
           /\ call[c].result = "None"

C2_Witness ==
    \E c \in Threads :
        /\ Done(c) /\ call[c].first = 401 /\ Posts(c) = 1 /\ call[c].tokenStatus = 500
        /\ Gets(c) = 1 /\ call[c].refreshCalls = 1 /\ call[c].result = "None"

\* C3: in every state a call has made at most one refresh attempt, at most
\* one token POST and at most two GETs, and a call whose retry got 401 has
\* ended in failure with that one refresh.
C3_AtMostOneRefreshOneRetry ==
    \A c \in Threads :
        /\ call[c].refreshCalls <= 1 /\ Posts(c) <= 1 /\ Gets(c) <= 2
        /\ call[c].retry = 401
              => Done(c) /\ call[c].result = "None" /\ call[c].refreshCalls = 1 /\ Gets(c) = 2

C3_Witness ==
    \E c \in Threads :
        Done(c) /\ call[c].retry = 401 /\ call[c].result = "None" /\ call[c].refreshCalls = 1

\* The tokens of the call's service as the store holds them now
StoredPair(c, store) ==
    <<store[call[c].svc]["ACCESS_TOKEN"], store[call[c].svc]["REFRESH_TOKEN"]>>
NewPair(c) == <<call[c].new_access, call[c].new_refresh>>
StoreUntouched(c) == environ = call[c].environ0 /\ dotenv = call[c].dotenv0
Blank(v) == v.t = "none" \/ (v.t = "str" /\ \A i \in 1..Len(v.s) : v.s[i] = SP)

\* C4 as stated, for a 2xx refresh answer that holds two token strings: after
\* a 401 the retry is only ever issued with both tokens of that answer in
\* os.environ and in .env, and a call that fails without a retry leaves
\* os.environ and .env as it found them.
C4_ReplacedAtomicallyOrUntouched ==
    \A c \in Threads :
        call[c].first = 401 /\ Is2xx(call[c].tokenStatus) /\ BothNewTokens(c) =>
            /\ call[c].pc = "retry" \/ call[c].retry # -1
                  => StoredPair(c, environ) = NewPair(c) /\ StoredPair(c, dotenv) = NewPair(c)
            /\ Done(c) /\ call[c].retry = -1
                  => StoreUntouched(c) /\ call[c].result = "None"

\* C5: once a refresh has reported success, and so whenever the retry GET is
\* about to be sent or has been sent, .env holds both tokens of the refresh
\* answer and a reload of .env yields them.
C5_PersistedBeforeRetry ==
    \A c \in Threads :
        /\ call[c].pc = "retry" \/ call[c].retry # -1 => call[c].refreshed = "True"
        /\ call[c].refreshed = "True"
              => /\ BothNewTokens(c)
                 /\ StoredPair(c, dotenv) = NewPair(c)
                 /\ StoredPair(c, Reloaded(environ, dotenv)) = NewPair(c)
                 /\ {<<"dotenv", k>> : k \in TokenKeys} \subseteq call[c].writes

C5_Witness ==
    \E c \in Threads :
        /\ call[c].pc = "retry" /\ call[c].refreshed = "True"
        /\ StoredPair(c, dotenv) = NewPair(c)
        /\ StoredPair(c, call[c].dotenv0) # NewPair(c)

\* C6: a make_request call that found the access token absent or blank has
\* returned None with no GET, no refresh and no POST; a Digitransit fetcher
\* that runs with DIGITRANSIT_KEY absent or blank has sent no request and
\* has returned 0, returned "" or raised, by fetcher.
C6_NoConfigNoNetwork ==
    /\ \A c \in Threads :
          call[c].pc # "idle" /\ Blank(call[c].environ0[call[c].svc]["ACCESS_TOKEN"])
              => /\ Done(c) /\ call[c].result = "None"
                 /\ Gets(c) = 0 /\ Posts(c) = 0 /\ call[c].refreshCalls = 0
    /\ fetch.pc # "idle" /\ Blank(DIGITRANSIT_KEY)
          => /\ fetch.pc = "done" /\ fetch.requests = 0
             /\ fetch.op = "get_next_departure_minutes"
                   => fetch.result.t = "int" /\ fetch.result.i = 0
             /\ fetch.op = "get_next_departures_formatted"
                   => fetch.result.t = "str" /\ fetch.result.s = <<>>
             /\ fetch.op = "fetch_bike_counts" => fetch.result.t = "raise"

C6_Witness ==
    \E c \in Threads :
        /\ Done(c) /\ call[c].environ0[call[c].svc]["ACCESS_TOKEN"] = Str(<<SP>>)
        /\ call[c].result = "None" /\ Gets(c) = 0

C6_WitnessFetch ==
    /\ fetch.pc = "done" /\ DIGITRANSIT_KEY = None /\ fetch.requests = 0
    /\ fetch.op = "fetch_bike_counts" /\ fetch.result.t = "raise"

\* C7: on a 2xx answer of the token endpoint the refresh succeeds only with
\* both tokens non-empty; with either absent or empty the refresh returns
\* False, os.environ and .env are as the call found them, and the call has
\* failed after its one GET.
C7_BothTokensOrFailure ==
    \A c \in Threads :
        Is2xx(call[c].tokenStatus) =>
            /\ call[c].refreshed = "True"
                  => Truthy(call[c].new_access) /\ Truthy(call[c].new_refresh)
            /\ call[c].tokenBody = "obj"
               /\ (~Truthy(call[c].new_access) \/ ~Truthy(call[c].new_refresh))
                  => /\ Done(c) /\ call[c].refreshed = "False" /\ call[c].result = "None"
                     /\ StoreUntouched(c) /\ Gets(c) = 1 /\ call[c].writes = {}

C7_Witness ==
    \E c \in Threads :
        /\ Done(c) /\ call[c].tokenStatus = 200 /\ call[c].tokenBody = "obj"
        /\ Truthy(call[c].new_access) /\ call[c].new_refresh = None
        /\ call[c].refreshed = "False" /\ StoreUntouched(c)

\* C8: a refresh that runs with client id, client secret or refresh token
\* absent or empty has returned False at once: no POST was sent and
\* os.environ and .env are as the call found them.
C8_MissingCredentialsNoPost ==
    \A c \in Threads :
        CredsMissing(c)
            => /\ Done(c) /\ call[c].refreshed = "False"
               /\ Posts(c) = 0 /\ call[c].tokenStatus = -1
               /\ StoreUntouched(c) /\ call[c].writes = {}

C8_Witness ==
    \E c \in Threads :
        /\ Done(c) /\ call[c].refreshCalls = 1
        /\ call[c].environ0[call[c].svc]["CLIENT_ID"] = None
        /\ call[c].refreshed = "False" /\ Posts(c) = 0

\* The token exchange failed: the POST raised or was answered 4xx/5xx.
ExchangeFailed(c) ==
    Posts(c) = 1 /\ (call[c].tokenStatus = TransportError \/ RaiseForStatus(call[c].tokenStatus))

\* C9 as stated: the refresh never gives, for a failed exchange, the result it
\* gives for missing credentials (which is False).
C9_FailureKindsDistinct ==
    \A c \in Threads :
        /\ CredsMissing(c) /\ Done(c) => call[c].refreshed = "False"
        /\ ExchangeFailed(c) /\ Done(c) => call[c].refreshed # "False"

\* C9 (amended): missing credentials and a 4xx/5xx answer both make the
\* refresh return False, and so does a transport error in the Oura client
\* (the Fitbit handler raises instead); the two kinds differ in the message
\* printed only.
C9_SameResultOtherMessage ==
    \A c \in Threads :
        LET lines == {call[c].out[i] : i \in 1..Len(call[c].out)}
        IN  /\ CredsMissing(c) /\ Done(c)
                  => /\ call[c].refreshed = "False"
                     /\ "Missing credentials. Cannot refresh." \in lines
                     /\ "Failed to refresh token" \notin lines
            /\ ExchangeFailed(c) /\ Done(c)
                  => /\ call[c].refreshed =
                           (IF call[c].svc = "fitbit" /\ call[c].tokenStatus = TransportError
                            THEN "raise" ELSE "False")
                     /\ "Failed to refresh token" \in lines
                     /\ "Missing credentials. Cannot refresh." \notin lines

C9_Witness ==
    \E c \in Threads :
        /\ Done(c) /\ call[c].svc = "oura" /\ Posts(c) = 1
        /\ call[c].tokenStatus = TransportError /\ call[c].refreshed = "False"

\* C10 as stated: a first GET that raised or was answered with any status
\* outside 2xx other than 401 makes the call fail with no refresh, no retry
\* and the store untouched.
C10_AnyNon2xxFails ==
    \A c \in Threads :
        Done(c) /\ Gets(c) >= 1 /\ call[c].first # 401 /\ ~Is2xx(call[c].first)
            => /\ call[c].result = "None"
               /\ call[c].refreshCalls = 0 /\ Posts(c) = 0 /\ Gets(c) = 1 /\ StoreUntouched(c)

\* C10 (amended): a first GET that raised or was answered 4xx/5xx other than
\* 401 makes the call fail; a first GET answered with any status other than
\* 401 leaves no refresh attempt, no retry and the store untouched.
C10_ErrorStatusFails ==
    \A c \in Threads :
        Done(c) /\ Gets(c) >= 1 /\ call[c].first # 401
            => /\ call[c].first = TransportError \/ RaiseForStatus(call[c].first)
                     => call[c].result = "None"
               /\ call[c].refreshCalls = 0 /\ Posts(c) = 0 /\ Gets(c) = 1 /\ StoreUntouched(c)

C10_Witness ==
    \E c \in Threads :
        /\ Done(c) /\ call[c].first = 500 /\ call[c].result = "None"
        /\ call[c].refreshCalls = 0 /\ Gets(c) = 1

\* The issue number of a credential: 0 for the configured one (and for an
\* absent or blank value), n for the n-th the token endpoint handed out.
Idx(v) == IF v.t = "str" /\ Strip(v.s) # <<>> THEN Strip(v.s)[1][2] ELSE 0
\* The issue number of the access token a sent header set carries.
HeaderIdx(h) == IF h = {} THEN 0 ELSE Idx(Str((CHOOSE x \in h : TRUE)[2][2]))
\* The last write of a successful save_token is the refresh token in .env:
\* its issue number is that of the latest successful refresh.
Refreshes(store, s) == Idx(store[s]["REFRESH_TOKEN"])
BearerOf(token) == {<<"Authorization", <<"Bearer", token>>>>}

C12_NoLock ==
    \A c \in Threads :
        /\ call[c].pc = "idle" => \A s \in Services : ENABLED make_request(c, s)
        /\ call[c].pc = "get" => ENABLED FirstGet(c)
        /\ call[c].pc = "refresh" => ENABLED refresh_token(c)
        /\ call[c].pc = "post" => ENABLED TokenPost(c)
        /\ call[c].pc = "save_env_access" => ENABLED SaveEnvAccess(c)
        /\ call[c].pc = "save_env_refresh" => ENABLED SaveEnvRefresh(c)
        /\ call[c].pc = "save_file_access" => ENABLED SaveFileAccess(c)
        /\ call[c].pc = "save_file_refresh" => ENABLED SaveFileRefresh(c)
        /\ call[c].pc = "retry" => ENABLED RetryGet(c)

\* The race: two calls for one service both got 401, both posted the same
\* old refresh token, both refreshes succeeded with all four writes done, and
\* .env is left with the access token of one response and the refresh token
\* of the other; the refresh token the first call saved is overwritten.
C12_Witness ==
    \E s \in Services, c \in Threads, d \in Threads :
        /\ c # d
        /\ \A t \in {c, d} :
              /\ call[t].pc = "done" /\ call[t].svc = s
              /\ call[t].first = 401 /\ call[t].refreshed = "True"
              /\ Posts(t) = 1 /\ call[t].posted[1].data.refresh_token = OldRefresh
              /\ call[t].writes = AllWrites
        /\ Idx(call[c].new_refresh) # Idx(call[d].new_refresh)
        /\ dotenv[s]["ACCESS_TOKEN"] = call[c].new_access
        /\ dotenv[s]["REFRESH_TOKEN"] = call[d].new_refresh
        /\ Idx(dotenv[s]["ACCESS_TOKEN"]) # Idx(dotenv[s]["REFRESH_TOKEN"])
        /\ environ[s]["REFRESH_TOKEN"] # call[c].new_refresh

\* The keys of a JSON object body
Keys(body) == {body[i][1] : i \in 1..Len(body)}
SnapshotKeys ==
    {"biked_km", "pohjolankatu_alepabikes", "koskelantie_alepabikes", "steps",
     "activity_percentage", "readiness", "sleep_time", "sleep_score",
     "calories_intake", "calories_consumed"}
\* The response is 502 with a body holding only an error field.
ErrorOnly(res) == res.t = "response" /\ res.i = 502 /\ Len(res.s) = 1 /\ Keys(res.s) = {"error"}
\* The response is 200 with the full body of the route.
FullBody(op, res) ==
    /\ res.t = "response" /\ res.i = 200
    /\ IF op = "root_custom_json"
       THEN Keys(res.s) = SnapshotKeys /\ Len(res.s) = Cardinality(SnapshotKeys)
       ELSE /\ Keys(res.s) = {"frames"} /\ Len(res.s) = 1
            /\ Len(res.s[1][2]) = 2
            /\ \A i \in 1..2 : Len(res.s[1][2][i]) = 2 /\ Keys(res.s[1][2][i]) = {"text", "icon"}
\* fetch_bike_counts raised: no API key, a transport error or timeout, a
\* status raise_for_status raises for (401 included), a body that is no
\* JSON, or a GraphQL errors field.
BikeFetchRaised(f) ==
    \/ f.requests = 0
    \/ f.answer[1] = TransportError \/ RaiseForStatus(f.answer[1])
    \/ f.answer[2] \in {"bad", "errors"}

C13_WitnessSnapshot ==
    /\ fetch.pc = "done" /\ fetch.op = "root_custom_json" /\ fetch.requests = 1
    /\ fetch.answer = <<200, "obj">>
    /\ FullBody("root_custom_json", fetch.result)

\* The fetchers that must not let an exception out
Swallowing == (ClientOps \cup {"get_condition"} \cup FetchOps) \ ({"fetch_bike_counts"} \cup Routes)

\* C14 (its second half): no fetcher other than the bike-count fetcher lets
\* an exception out, whatever the answer. Refuted for the Oura fetchers: an
\* answer that parses as JSON but is no object (an array) reaches data.get
\* outside any try and AttributeError leaves the fetcher.
C14_NoExceptionPastFetcher ==
    (fetch.pc = "done" /\ fetch.op \in Swallowing) => fetch.result.t # "raise"

\* C14 (its first half) as stated: a non-2xx answer yields the documented
\* default. Refuted by 3xx answers, which raise_for_status lets through.
C14_Non2xxYieldsDefault ==
    (fetch.pc = "done" /\ fetch.op \in Swallowing /\ fetch.requests >= 1
        /\ ~Is2xx(fetch.answer[1]))
        => fetch.result = Default(fetch.op)

\* What of C14 the code does keep: when the last request of a fetcher ended
\* in a transport error or timeout, a 4xx or 5xx status, a body that is no
\* JSON, a GraphQL errors field, or make_request returned None, the fetcher
\* returns its documented default (get_daily_metrics: zeros for that part)
\* and raises nothing.
C14_FailedRequestYieldsDefault ==
    (fetch.pc = "done" /\ fetch.op \in Swallowing /\ fetch.requests >= 1
        /\ \/ fetch.answer[1] = TransportError \/ RaiseForStatus(fetch.answer[1])
           \/ fetch.answer[2] \in {"bad", "errors", "none"})
        => IF fetch.op = "get_daily_metrics"
           THEN fetch.result.t = "dict" /\ fetch.result.s[2] = PyInt(0) /\ fetch.result.s[3] = PyInt(0)
           ELSE fetch.result = Default(fetch.op)

\* Five characters: two decimal digits, a colon, two decimal digits
HHMM(h, mi) == <<Digit(h \div 10), Digit(h % 10), ":", Digit(mi \div 10), Digit(mi % 10)>>

\* C15: a departure d seconds after midnight, d >= 0, is rendered as five
\* characters: the two decimal digits of (d div 3600) mod 24, a colon, the two
\* decimal digits of (d mod 3600) div 60; 57300 gives "15:55", and a value of
\* 86400 or more gives the clock time of the next day.
C15_HoursColonMinutes ==
    (fetch.pc = "done" /\ fetch.op = "get_next_departures_formatted")
        => LET d == fetch.answer[1]
               h == (d \div 3600) % 24
               mi == (d % 3600) \div 60
               next_day == d - 86400
           IN  /\ fetch.result.t = "str"
               /\ fetch.result.s = HHMM(h, mi)
               /\ d = 57300 => fetch.result.s = <<"1", "5", ":", "5", "5">>
               /\ d >= 86400 =>
                      fetch.result.s = HHMM(next_day \div 3600, (next_day % 3600) \div 60)

\* 57300 has been rendered as "15:55".
C15_Witness ==
    /\ fetch.pc = "done" /\ fetch.op = "get_next_departures_formatted"
    /\ fetch.answer[1] = 57300
    /\ fetch.result.s = <<"1", "5", ":", "5", "5">>

\* 90000, an hour past the next midnight, has been rendered as "01:00".
C15_WitnessWrap ==
    /\ fetch.pc = "done" /\ fetch.op = "get_next_departures_formatted"
    /\ fetch.answer[1] = 90000
    /\ fetch.result.s = <<"0", "1", ":", "0", "0">>

\* The stop times of tram 1 to Eira, as positions in the answer
MatchesAt(l) ==
    {i \in 1..Len(l) : l[i].shortName = Tram /\ Contains(Lower(Eira), Lower(l[i].tripHeadsign))}
\* Whole minutes from now to a departure, moved to the next day when it lies
\* before now
MinutesUntil(departure, now) ==
    LET diff == departure - now
    IN  (IF diff < 0 THEN diff + 24 * 3600 ELSE diff) \div 60
MinutesDone == fetch.pc = "done" /\ fetch.op = "get_next_departure_minutes"

\* C16 as stated: the result is the minutes until the first matching stop
\* time, taking its realtime departure whenever it has one. (Answers in which
\* a matching stop time has no departure at all are left aside.) Refuted by a
\* realtime departure of 0 s, midnight: `realtime or scheduled` takes 0 for
\* absent and the scheduled departure is used.
C16_RealtimeWheneverPresent ==
    (MinutesDone /\ \A i \in MatchesAt(fetch.answer[2]) :
                        \/ fetch.answer[2][i].realtimeDeparture.t = "int"
                        \/ fetch.answer[2][i].scheduledDeparture.t = "int")
        => LET l == fetch.answer[2]
               hits == MatchesAt(l)
           IN  IF hits = {} THEN fetch.result.i = 0
               ELSE LET st == l[CHOOSE i \in hits : \A j \in hits : i <= j]
                        departure == IF st.realtimeDeparture.t = "int"
                                     THEN st.realtimeDeparture.n
                                     ELSE st.scheduledDeparture.n
                    IN  fetch.result.i = MinutesUntil(departure, fetch.answer[1])

\* What the code keeps of C16: the result is the minutes until the first
\* matching stop time that has a departure, taking the realtime departure
\* when it is present and not 0 and the scheduled one otherwise; it is an int,
\* never negative, and 0 when no such stop time is listed.
C16_MinutesToFirstMatch ==
    MinutesDone
        => LET l == fetch.answer[2]
               Dep(st) == IF st.realtimeDeparture.t = "int" /\ st.realtimeDeparture.n # 0
                          THEN st.realtimeDeparture ELSE st.scheduledDeparture
               hits == {i \in MatchesAt(l) : Dep(l[i]).t = "int"}
           IN  /\ fetch.result.t = "int" /\ fetch.result.i >= 0
               /\ IF hits = {} THEN fetch.result.i = 0
                  ELSE fetch.result.i =
                          MinutesUntil(Dep(l[CHOOSE i \in hits : \A j \in hits : i <= j]).n,
                                       fetch.answer[1])

\* A departure earlier than now was counted on the next day, behind a stop
\* time of another route.
C16_Witness ==
    /\ MinutesDone
    /\ fetch.answer[1] = 57301
    /\ Len(fetch.answer[2]) = 2
    /\ fetch.answer[2][1].shortName # Tram
    /\ fetch.answer[2][2].realtimeDeparture = PyInt(57300)
    /\ fetch.result.i = 1439

\* A credential without its issue number
Shape(v) == IF v.t = "str" THEN [t |-> "str", s |-> [i \in 1..Len(v.s) |-> v.s[i][1]]] ELSE v
\* The tokens a service has in os.environ and in .env, without issue numbers
ShapeStore(s) ==
    [k \in TokenKeys |-> <<Shape(environ[s][k]), Shape(dotenv[s][k])>>]
\* The two values are the same wherever both are set.
Agree(x, y, unset) == x = unset \/ y = unset \/ x = y
\* The two calls were given the same outcome at every step both of them took:
\* the first GET, the refresh POST (status, body, tokens), the two writes of
\* .env, the retry GET.
SameOutcomes(c, d) ==
    LET a == call[c]
        b == call[d]
        wrote(r, store, k) == <<store, k>> \in r.writes
        tried1(r) == wrote(r, "environ", "REFRESH_TOKEN") /\ r.pc = "done"
        tried2(r) == wrote(r, "dotenv", "ACCESS_TOKEN") /\ r.pc = "done"
    IN  /\ Agree(a.first, b.first, -1)
        /\ Agree(a.tokenStatus, b.tokenStatus, -1)
        /\ Agree(a.tokenBody, b.tokenBody, "none")
        /\ (a.tokenStatus # -1 /\ b.tokenStatus # -1) =>
              /\ Shape(a.new_access) = Shape(b.new_access)
              /\ Shape(a.new_refresh) = Shape(b.new_refresh)
        /\ (tried1(a) /\ tried1(b)) =>
              (wrote(a, "dotenv", "ACCESS_TOKEN") <=> wrote(b, "dotenv", "ACCESS_TOKEN"))
        /\ (tried2(a) /\ tried2(b)) =>
              (wrote(a, "dotenv", "REFRESH_TOKEN") <=> wrote(b, "dotenv", "REFRESH_TOKEN"))
        /\ Agree(a.retry, b.retry, -1)
        /\ \A i \in 1..2 : (i <= Len(a.got) /\ i <= Len(b.got)) => a.got[i] = b.got[i]

\* C17: the Fitbit call and the Oura call, started from the same
\* configuration and given the same outcomes, take the same steps (the same
\* GETs, the same refresh POST, the same retry), return the same result (a
\* body or None), and leave their own tokens updated alike; and the tokens
\* stored for a service are its configured ones or ones issued to its own
\* call, never the other client's.
C17_SameProtocol ==
    /\ (Done(1) /\ Done(2) /\ SameOutcomes(1, 2)) =>
          /\ call[1].result = call[2].result
          /\ Gets(1) = Gets(2) /\ Posts(1) = Posts(2)
          /\ call[1].refreshCalls = call[2].refreshCalls
          /\ call[1].first = call[2].first /\ call[1].retry = call[2].retry
          /\ call[1].tokenStatus = call[2].tokenStatus
          /\ call[1].writes = call[2].writes
          /\ ShapeStore("fitbit") = ShapeStore("oura")
    /\ \A c \in Threads :
          LET s == TwinOf(c)
              other == call[3 - c]
          IN  \A k \in TokenKeys, store \in {environ, dotenv} :
                 \/ Idx(store[s][k]) = 0
                 \/ /\ call[c].pc # "idle"
                    /\ store[s][k] = (IF k = "ACCESS_TOKEN" THEN call[c].new_access
                                      ELSE call[c].new_refresh)
                    /\ (other.pc # "idle" /\ Idx(other.new_access) > 0) =>
                           Idx(store[s][k]) # Idx(other.new_access)

\* Both calls got 401, the refresh POST of both ended in a transport error,
\* and both returned None after one GET and one POST (Fitbit through its
\* failing handler, Oura through `return False`).
C17_Witness ==
    /\ Done(1) /\ Done(2) /\ SameOutcomes(1, 2)
    /\ call[1].first = 401 /\ call[1].tokenStatus = TransportError
    /\ call[2].first = 401 /\ call[2].tokenStatus = TransportError
    /\ call[1].refreshed = "raise" /\ call[2].refreshed = "False"
    /\ call[1].result = "None" /\ Gets(1) = 1 /\ Posts(1) = 1

\* Both calls refreshed and retried, each storing its own new tokens.
C17_WitnessRefreshed ==
    /\ Done(1) /\ Done(2) /\ SameOutcomes(1, 2)
    /\ call[1].refreshed = "True" /\ call[2].refreshed = "True"
    /\ call[1].result = "body" /\ Gets(2) = 2
    /\ environ["fitbit"]["ACCESS_TOKEN"] = call[1].new_access
    /\ environ["oura"]["ACCESS_TOKEN"] = call[2].new_access
    /\ call[1].new_access # call[2].new_access

\* The call is between its first statement and its return.
Running(c) == call[c].pc \notin {"idle", "done"}

\* C18: every make_request call eventually returns, given only that HTTP
\* calls issued with a timeout end. Refuted for Fitbit: after a 401 the
\* refresh POST is issued without a timeout, and a token endpoint that never
\* answers keeps the call at that statement for ever.
C18_EveryCallReturns ==
    \A c \in MainThread : Running(c) ~> Done(c)

\* What holds: every Oura call returns, and so does a Fitbit call that is
\* not at its refresh POST and does not come to it.
C18_OuraCallReturns ==
    \A c \in MainThread :
        (Running(c) /\ call[c].svc = "oura") ~> Done(c)

\* A Fitbit call left at a refresh POST issued with no timeout returns or
\* stays there; it is the only statement a call can stay at.
C18_OnlyFitbitPostCanHang ==
    \A c \in MainThread :
        Running(c) ~> (Done(c) \/ (call[c].svc = "fitbit" /\ call[c].pc = "post"))

====
